---- MODULE Spec2Model ----
(***************************************************************************)
(* Childcare cost dashboard (src/app.py): the cached loader load_data,     *)
(* which reads a wide CSV, lower-cases its column names, melts the         *)
(* '_75fcc' cost columns into long format and decodes year and age group   *)
(* from each column name, and the Streamlit script around it, which is     *)
(* re-run from the top on every interaction.                               *)
(*                                                                         *)
(* Column names are sequences of one-character strings, so that lower(),   *)
(* the substring test and the two regular expressions are computed on      *)
(* characters.  A cell is a record: NaN (an empty CSV field), a number, or *)
(* a string that pandas could not parse as a number.  Column names of one  *)
(* table are distinct after lower-casing.                                  *)
(***************************************************************************)
EXTENDS Integers, Sequences, FiniteSets, TLC

VARIABLES file, cache, pc, df_clean, exception, calls, reads, runs, shown,
          selected_state, selected_years

vars == <<file, cache, pc, df_clean, exception, calls, reads, runs, shown,
          selected_state, selected_years>>

(* ---------------------------- bounds ----------------------------------- *)
MaxRows == 2
MaxExtraCols == 2
MaxRuns == 3

(* ---------------------------- characters ------------------------------- *)
LowerAlpha == <<"a","b","c","d","e","f","g","h","i","j","k","l","m",
                "n","o","p","q","r","s","t","u","v","w","x","y","z">>
UpperAlpha == <<"A","B","C","D","E","F","G","H","I","J","K","L","M",
                "N","O","P","Q","R","S","T","U","V","W","X","Y","Z">>
Digits == <<"0","1","2","3","4","5","6","7","8","9">>

Letters == 1..26

\* str.lower() and str.upper() on one character
ToLower == [c \in {UpperAlpha[i] : i \in Letters} |->
               LowerAlpha[CHOOSE i \in Letters : UpperAlpha[i] = c]]

ToUpper == [c \in {LowerAlpha[i] : i \in Letters} |->
               UpperAlpha[CHOOSE i \in Letters : LowerAlpha[i] = c]]

DigitValue == [c \in {Digits[i] : i \in 1..10} |->
                  (CHOOSE i \in 1..10 : Digits[i] = c) - 1]

IsDigit(c) == c \in DOMAIN DigitValue

DigitVal(c) == DigitValue[c]

LowerChar(c) == IF c \in DOMAIN ToLower THEN ToLower[c] ELSE c

UpperChar(c) == IF c \in DOMAIN ToUpper THEN ToUpper[c] ELSE c

str_lower(s) == [i \in 1..Len(s) |-> LowerChar(s[i])]

str_upper(s) == [i \in 1..Len(s) |-> UpperChar(s[i])]

str_capitalize(s) ==
    [i \in 1..Len(s) |-> IF i = 1 THEN UpperChar(s[i]) ELSE LowerChar(s[i])]

\* needle occurs in s starting at position i
MatchAt(s, i, needle) ==
    /\ i + Len(needle) - 1 <= Len(s)
    /\ \A k \in 1..Len(needle) : s[i + k - 1] = needle[k]

\* Python's `needle in s`
Contains(s, needle) == \E i \in 1..Len(s) : MatchAt(s, i, needle)

(* ---------------------------- cells ------------------------------------ *)
NaN == [k |-> "nan", n |-> 0, s |-> ""]
Num(x) == [k |-> "num", n |-> x, s |-> ""]
Str(x) == [k |-> "str", n |-> 0, s |-> x]

\* a failed str.extract: the cell is NaN, written as the empty token
NoMatch == <<>>

(* ---------------------------- names ------------------------------------ *)
FILE_PATH == "nationaldatabaseofchildcare_sampled.csv"

state_name == <<"s","t","a","t","e","_","n","a","m","e">>
state_abbreviation ==
    <<"s","t","a","t","e","_","a","b","b","r","e","v","i","a","t","i","o","n">>
county_name == <<"c","o","u","n","t","y","_","n","a","m","e">>
studyyear == <<"s","t","u","d","y","y","e","a","r">>

base_cols == <<state_name, state_abbreviation, county_name>>

COST_MARKER == <<"_","7","5","f","c","c">>

AGE_TOKENS == << <<"i","n","f","a","n","t">>,
                 <<"t","o","d","d","l","e","r">>,
                 <<"p","r","e","s","c","h","o","o","l">> >>

Infant == <<"I","n","f","a","n","t">>
Toddler == <<"T","o","d","d","l","e","r">>
Preschool == <<"P","r","e","s","c","h","o","o","l">>

(* ------------------- load_data: the normalizer ------------------------- *)
\* df.columns = df.columns.str.lower()
lower_columns_identity(cols) == cols

lower_columns(cols) == [i \in 1..Len(cols) |-> str_lower(cols[i])]

is_cost_col(col) == Contains(str_lower(col), COST_MARKER)

\* cost_cols = [col for col in df.columns if '_75fcc' in col.lower()]
cost_cols(cols) == SelectSeq(cols, is_cost_col)

HasCol(cols, name) == \E i \in 1..Len(cols) : cols[i] = name

ColIndex(cols, name) == CHOOSE i \in 1..Len(cols) : cols[i] = name

\* df[base_cols + cost_cols] raises KeyError for the requested labels that
\* are not columns; cost_cols are columns by construction
missing_keys_state_only(cols) ==
    SelectSeq(<<state_name>>, LAMBDA b : ~HasCol(cols, b))

missing_keys(cols) == SelectSeq(base_cols, LAMBDA b : ~HasCol(cols, b))

\* the value of column `name` in `row`
Cell(cols, row, name) ==
    IF HasCol(cols, name) THEN row[ColIndex(cols, name)] ELSE NaN

melt_row(cols, row, metric, value) ==
    [state_name |-> Cell(cols, row, state_name),
     state_abbreviation |-> Cell(cols, row, state_abbreviation),
     county_name |-> Cell(cols, row, county_name),
     metric |-> metric,
     weekly_cost |-> value]

RECURSIVE melt_from(_, _, _, _)
melt_from(cols, rows, cc, j) ==
    IF j > Len(cc) THEN <<>>
    ELSE [i \in 1..Len(rows) |->
             melt_row(cols, rows[i], cc[j], Cell(cols, rows[i], cc[j]))]
         \o melt_from(cols, rows, cc, j + 1)

\* a melt that takes every value from the first cost column
RECURSIVE melt_first_value(_, _, _, _)
melt_first_value(cols, rows, cc, j) ==
    IF j > Len(cc) THEN <<>>
    ELSE [i \in 1..Len(rows) |->
             melt_row(cols, rows[i], cc[j], Cell(cols, rows[i], cc[1]))]
         \o melt_first_value(cols, rows, cc, j + 1)

melt_first_column(cols, rows, cc) == melt_first_value(cols, rows, cc, 1)

\* df_filtered.melt(id_vars=base_cols, var_name='metric',
\*                  value_name='weekly_cost'): column-major, one row per
\* (cost column, input row)
melt(cols, rows, cc) == melt_from(cols, rows, cc, 1)

\* re.search(r'(\d{4})', s): the leftmost run of four digits
RECURSIVE search_digits(_, _, _)
search_digits(s, i, width) ==
    IF i + width - 1 > Len(s) THEN NoMatch
    ELSE IF \A k \in 0..(width - 1) : IsDigit(s[i + k])
         THEN SubSeq(s, i, i + width - 1)
         ELSE search_digits(s, i + 1, width)

extract_year_two_digits(metric) == search_digits(metric, 1, 2)

extract_year(metric) == search_digits(metric, 1, 4)

\* the alternatives of (infant|toddler|preschool) tried in order at position i
AltAt(s, i) ==
    IF MatchAt(s, i, AGE_TOKENS[1]) THEN AGE_TOKENS[1]
    ELSE IF MatchAt(s, i, AGE_TOKENS[2]) THEN AGE_TOKENS[2]
    ELSE IF MatchAt(s, i, AGE_TOKENS[3]) THEN AGE_TOKENS[3]
    ELSE NoMatch

RECURSIVE search_age(_, _)
search_age(s, i) ==
    IF i > Len(s) THEN NoMatch
    ELSE IF AltAt(s, i) # NoMatch THEN AltAt(s, i)
         ELSE search_age(s, i + 1)

\* re.search(r'(infant|toddler|preschool)', s)
extract_age_group(metric) == search_age(metric, 1)

with_extracts(r) ==
    [state_name |-> r.state_name,
     state_abbreviation |-> r.state_abbreviation,
     county_name |-> r.county_name,
     metric |-> r.metric,
     weekly_cost |-> r.weekly_cost,
     year_str |-> extract_year(r.metric),
     age_group_str |-> extract_age_group(r.metric)]

\* dropna(subset=['year_str', 'age_group_str', 'weekly_cost'])
dropna_keep_no_age(r) ==
    /\ r.year_str # NoMatch
    /\ r.weekly_cost # NaN

dropna_keep(r) ==
    /\ r.year_str # NoMatch
    /\ r.age_group_str # NoMatch
    /\ r.weekly_cost # NaN

\* int(s) for a string of decimal digits
RECURSIVE to_int(_)
to_int(s) ==
    IF Len(s) = 0 THEN 0
    ELSE 10 * to_int(SubSeq(s, 1, Len(s) - 1)) + DigitVal(s[Len(s)])

with_types(r) ==
    [state_name |-> r.state_name,
     state_abbreviation |-> r.state_abbreviation,
     county_name |-> r.county_name,
     metric |-> r.metric,
     weekly_cost |-> r.weekly_cost,
     year_str |-> r.year_str,
     age_group_str |-> r.age_group_str,
     year |-> to_int(r.year_str),
     age_group |-> str_capitalize(r.age_group_str)]

\* results of load_data: None, an uncaught KeyError, or the melted frame
ResultNone(msg) == [kind |-> "None", rows |-> <<>>, missing |-> <<>>, error |-> msg]
ResultKeyError(m) == [kind |-> "KeyError", rows |-> <<>>, missing |-> m, error |-> ""]
ResultFrame(rs) == [kind |-> "frame", rows |-> rs, missing |-> <<>>, error |-> ""]

\* lines 50-69 on a table that was read
reshape(cols, rows) ==
    LET m == missing_keys(cols)
        melted == melt(cols, rows, cost_cols(cols))
        extracted == [i \in 1..Len(melted) |-> with_extracts(melted[i])]
        kept == SelectSeq(extracted, dropna_keep)
    IN  IF m # <<>> THEN ResultKeyError(m)
        ELSE ResultFrame([i \in 1..Len(kept) |-> with_types(kept[i])])

\* the body of load_data (lines 38-69) on the current content of the file
load_data_body(f) ==
    IF f.status = "absent" THEN ResultNone("not found")
    ELSE IF f.status = "garbled" THEN ResultNone("error while loading")
    ELSE reshape(lower_columns(f.table.cols), f.table.rows)

(* ---------------------------- input files ------------------------------ *)
\* columns a file may have besides the base columns and studyyear
ExtraPool == <<
    <<"2","0","1","0","_","7","5","f","c","c","i","n","f","a","n","t">>,
    <<"2","0","1","0","_","7","5","f","c","c","t","o","d","d","l","e","r">>,
    <<"_","7","5","f","c","c","p","r","e","s","c","h","o","o","l">>,
    <<"2","0","1","2","_","7","5","f","c","c","s","c","h","o","o","l","a","g","e">>,
    <<"i","n","f","a","n","t","_","7","5","f","c","c","_","2","0","1","4">>,
    <<"2","0","1","0","_","7","5","c","i","n","f","a","n","t">> >>

\* how the cells of one column are filled: all empty, all numbers, all
\* unparseable, or the three in turn down the rows
ColumnFills == {"nan", "num", "str", "mixed"}

CellKind(fill, i) ==
    IF fill # "mixed" THEN fill
    ELSE IF i % 3 = 1 THEN "num"
    ELSE IF i % 3 = 2 THEN "nan"
    ELSE "str"

CellOfKind(kind, i, j) ==
    IF kind = "nan" THEN NaN
    ELSE IF kind = "str" THEN Str("suppressed")
    ELSE Num(1000 + 100 * i + j)

BaseCell(b, i) ==
    IF i % 2 = 1
    THEN (IF b = 1 THEN Str("California") ELSE IF b = 2 THEN Str("CA") ELSE Str("Alameda"))
    ELSE (IF b = 1 THEN Str("Texas") ELSE IF b = 2 THEN Str("TX") ELSE Str("Travis"))

\* a table with the base columns `present`, a studyyear column if hasSY, the
\* pool columns `extra` with pool column j filled as fills[j], nrows rows, and
\* its header in upper case if `upper`
MkTable(present, hasSY, extra, nrows, fills, upper) ==
    LET bs == SelectSeq(<<1, 2, 3>>, LAMBDA b : b \in present)
        es == SelectSeq([j \in 1..Len(ExtraPool) |-> j], LAMBDA j : j \in extra)
        names == [k \in 1..Len(bs) |-> base_cols[bs[k]]]
                 \o (IF hasSY THEN <<studyyear>> ELSE <<>>)
                 \o [k \in 1..Len(es) |-> ExtraPool[es[k]]]
        row(i) == [k \in 1..Len(bs) |-> BaseCell(bs[k], i)]
                  \o (IF hasSY THEN <<Num(2015)>> ELSE <<>>)
                  \o [k \in 1..Len(es) |-> CellOfKind(CellKind(fills[es[k]], i), i, es[k])]
    IN  [cols |-> IF upper THEN [k \in 1..Len(names) |-> str_upper(names[k])]
                  ELSE names,
         rows |-> [i \in 1..nrows |-> row(i)]]

\* all base columns, no state_name, only state_name, none
BasePresence == {{1, 2, 3}, {2, 3}, {1}, {}}

ExtraChoices == {x \in SUBSET (1..Len(ExtraPool)) : Cardinality(x) <= MaxExtraCols}

NoTable == [cols |-> <<>>, rows |-> <<>>]

ReadableFile(t) == [status |-> "ok", table |-> t]

\* pd.read_csv raises FileNotFoundError / another exception
AbsentFile == [status |-> "absent", table |-> NoTable]
GarbledFile == [status |-> "garbled", table |-> NoTable]


\* the files of a session: Scenario A, a header without state_name, the
\* study-year layout, unparseable costs beside a numeric column, and the
\* two read failures
ScenarioA ==
    MkTable({1, 2, 3}, FALSE, {1, 2}, 1, [j \in {1, 2} |-> "num"], FALSE)
NoStateName ==
    MkTable({2, 3}, FALSE, {1}, 1, [j \in {1} |-> "num"], TRUE)
StudyYearLayout ==
    MkTable({1, 2, 3}, TRUE, {3}, 1, [j \in {3} |-> "num"], FALSE)
SuppressedCosts ==
    MkTable({1, 2, 3}, FALSE, {1, 5}, 2,
            [j \in {1, 5} |-> IF j = 1 THEN "str" ELSE "num"], FALSE)

SessionFiles ==
    {ReadableFile(ScenarioA), ReadableFile(NoStateName),
     ReadableFile(StudyYearLayout), ReadableFile(SuppressedCosts),
     AbsentFile, GarbledFile}

(* ---------------------------- the script ------------------------------- *)
Unset == [kind |-> "unset", rows |-> <<>>, missing |-> <<>>, error |-> ""]

NoException == [type |-> "", keys |-> <<>>]
Raised(type, keys) == [type |-> type, keys |-> keys]

NoCache == [p \in {} |-> Unset]

\* st.cache_data: the key is built from the function and its arguments
cache_key(path, f) == <<path>>

cache_hit(c, key) == key \in DOMAIN c

\* the entry written after the function returned
cache_write_nothing(c, key, value) == c

cache_write(c, key, value) ==
    [x \in DOMAIN c \cup {key} |-> IF x = key THEN value ELSE c[x]]

\* the st.error calls made inside load_data, replayed on a cache hit
load_messages(r) ==
    IF r.kind = "None" THEN <<"error: " \o r.error>> ELSE <<>>

\* line 72: df_clean = load_data(FILE_PATH) through st.cache_data
LoadData ==
    /\ pc = "start"
    /\ calls' = calls + 1
    /\ LET key == cache_key(FILE_PATH, file)
       IN  IF cache_hit(cache, key)
           THEN /\ df_clean' = cache[key]
                /\ shown' = shown \o load_messages(cache[key])
                /\ pc' = "loaded"
                /\ UNCHANGED <<cache, reads, exception>>
           ELSE LET r == load_data_body(file)
                IN  /\ reads' = reads + 1
                    /\ IF r.kind = "KeyError"
                       THEN /\ exception' = Raised("KeyError", r.missing)
                            /\ shown' = Append(shown, "exception")
                            /\ pc' = "raised"
                            /\ UNCHANGED <<cache, df_clean>>
                       ELSE /\ df_clean' = r
                            /\ cache' = cache_write(cache, key, r)
                            /\ shown' = shown \o load_messages(r)
                            /\ pc' = "loaded"
                            /\ UNCHANGED exception
    /\ UNCHANGED <<file, runs, selected_state, selected_years>>

\* line 75: df_clean is None or df_clean.empty
load_failed_none_only(df) == df.kind = "None"

load_failed(df) == df.kind = "None" \/ (df.kind = "frame" /\ df.rows = <<>>)

\* lines 75-77
CheckStop ==
    /\ pc = "loaded"
    /\ IF load_failed(df_clean)
       THEN /\ shown' = Append(shown, "error: could not be loaded or is empty")
            /\ pc' = "stopped"
       ELSE /\ pc' = "filters"
            /\ UNCHANGED shown
    /\ UNCHANGED <<file, cache, df_clean, exception, calls, reads, runs,
                   selected_state, selected_years>>

Years(df) == {df.rows[i].year : i \in 1..Len(df.rows)}

Min(S) == CHOOSE x \in S : \A y \in S : x <= y
Max(S) == CHOOSE x \in S : \A y \in S : x >= y

ALL_STATES == "All States"

\* ['All States'] + sorted(df_clean['state_name'].unique())
state_options(df) ==
    {ALL_STATES} \cup {df.rows[i].state_name.s : i \in 1..Len(df.rows)}

\* lines 80-100: title, year bounds, the state select box and the year slider
RenderFilters ==
    /\ pc = "filters"
    /\ IF df_clean.kind # "frame"
       THEN /\ exception' = Raised("TypeError", <<>>)
            /\ shown' = shown \o <<"title", "exception">>
            /\ pc' = "raised"
            /\ UNCHANGED <<selected_state, selected_years>>
       ELSE IF df_clean.rows = <<>>
       THEN /\ exception' = Raised("ValueError", <<>>)
            /\ shown' = shown \o <<"title", "exception">>
            /\ pc' = "raised"
            /\ UNCHANGED <<selected_state, selected_years>>
       ELSE LET min_year == Min(Years(df_clean))
                max_year == Max(Years(df_clean))
            IN  /\ selected_state' \in state_options(df_clean)
                /\ selected_years' \in
                       {y \in (min_year..max_year) \X (min_year..max_year) :
                            y[1] <= y[2]}
                /\ shown' = shown \o <<"title", "filters">>
                /\ pc' = "kpi"
                /\ UNCHANGED exception
    /\ UNCHANGED <<file, cache, df_clean, calls, reads, runs>>

InState(r) == selected_state = ALL_STATES \/ r.state_name.s = selected_state

\* lines 104-109
dff == SelectSeq(df_clean.rows,
                 LAMBDA r : /\ InState(r)
                            /\ r.year >= selected_years[1]
                            /\ r.year <= selected_years[2])

\* lines 114-116
kpi_data == SelectSeq(df_clean.rows,
                      LAMBDA r : r.year = selected_years[2] /\ InState(r))

\* line 155
map_data == SelectSeq(df_clean.rows,
                      LAMBDA r : r.year = selected_years[2] /\ r.age_group = Infant)

\* groupby(...)['weekly_cost'].mean() raises TypeError on a group holding a string
mean_fails(rs) == \E i \in 1..Len(rs) : rs[i].weekly_cost.k = "str"

Render(data, element, next) ==
    /\ IF mean_fails(data)
       THEN /\ exception' = Raised("TypeError", <<>>)
            /\ shown' = Append(shown, "exception")
            /\ pc' = "raised"
       ELSE /\ shown' = Append(shown, element)
            /\ pc' = next
            /\ UNCHANGED exception
    /\ UNCHANGED <<file, cache, df_clean, calls, reads, runs,
                   selected_state, selected_years>>

\* lines 112-130
RenderKPI == pc = "kpi" /\ Render(kpi_data, "kpi", "line_chart")

\* lines 136-151
RenderLine == pc = "line_chart" /\ Render(dff, "line_chart", "choropleth")

\* lines 153-167
RenderMap == pc = "choropleth" /\ Render(map_data, "choropleth", "done")

\* Streamlit runs the script again from the top
Rerun ==
    /\ pc # "start"
    /\ runs < MaxRuns
    /\ runs' = runs + 1
    /\ pc' = "start"
    /\ shown' = <<>>
    /\ df_clean' = Unset
    /\ exception' = NoException
    /\ UNCHANGED <<file, cache, calls, reads, selected_state, selected_years>>

\* the file at FILE_PATH is replaced, removed or damaged; calls and reads
\* count the invocations of load_data and of pd.read_csv on the new content
ChangeFile ==
    /\ \E f \in SessionFiles \ {file} : file' = f
    /\ calls' = 0
    /\ reads' = 0
    /\ UNCHANGED <<cache, pc, df_clean, exception, runs, shown,
                   selected_state, selected_years>>

InitRest ==
    /\ cache = NoCache
    /\ pc = "start"
    /\ df_clean = Unset
    /\ exception = NoException
    /\ calls = 0
    /\ reads = 0
    /\ runs = 1
    /\ shown = <<>>
    /\ selected_state = ALL_STATES
    /\ selected_years = <<0, 0>>

Init == file \in SessionFiles /\ InitRest

Next ==
    \/ LoadData
    \/ CheckStop
    \/ RenderFilters
    \/ RenderKPI
    \/ RenderLine
    \/ RenderMap
    \/ Rerun
    \/ ChangeFile

Spec == Init /\ [][Next]_vars

\* one call of load_data on every input file
InitLoad ==
    /\ \/ \E extra \in ExtraChoices, nrows \in 0..MaxRows :
            \E present \in BasePresence, hasSY \in BOOLEAN, upper \in BOOLEAN,
               fills \in [extra -> ColumnFills] :
                /\ present = {1, 2, 3} \/ Cardinality(extra) <= 1
                /\ file = ReadableFile(MkTable(present, hasSY, extra, nrows, fills, upper))
       \/ file \in {AbsentFile, GarbledFile}
    /\ InitRest

NextLoad == LoadData \/ CheckStop

SpecLoad == InitLoad /\ [][NextLoad]_vars

(* ------------------- the input, read off the raw file ------------------ *)
Header == file.table.cols
Rows == file.table.rows

DigitChars == {"0", "1", "2", "3", "4", "5", "6", "7", "8", "9"}

SameCharIgnoringCase(a, b) == a = b \/ LowerChar(a) = LowerChar(b)

SameIgnoringCase(a, b) ==
    /\ Len(a) = Len(b)
    /\ \A i \in 1..Len(a) : SameCharIgnoringCase(a[i], b[i])

HasColumn(name) == \E k \in 1..Len(Header) : SameIgnoringCase(Header[k], name)

MissingBase == {b \in {state_name, state_abbreviation, county_name} : ~HasColumn(b)}

TokenAt(s, i, tok) ==
    /\ i + Len(tok) - 1 <= Len(s)
    /\ \A k \in 1..Len(tok) : SameCharIgnoringCase(s[i + k - 1], tok[k])

IsCostColumn(s) == \E i \in 1..Len(s) : TokenAt(s, i, COST_MARKER)

FourDigitsAt(s, i) ==
    /\ i + 3 <= Len(s)
    /\ \A k \in 0..3 : s[i + k] \in DigitChars

HasYearToken(s) == \E i \in 1..Len(s) : FourDigitsAt(s, i)

YearToken(s) ==
    LET i == CHOOSE x \in 1..Len(s) :
                 FourDigitsAt(s, x) /\ \A y \in 1..(x - 1) : ~FourDigitsAt(s, y)
    IN  1000 * DigitVal(s[i]) + 100 * DigitVal(s[i + 1])
        + 10 * DigitVal(s[i + 2]) + DigitVal(s[i + 3])

AgeTokenAt(s, i) == \E t \in 1..3 : TokenAt(s, i, AGE_TOKENS[t])

HasAgeToken(s) == \E i \in 1..Len(s) : AgeTokenAt(s, i)

AgeGroupNames == <<Infant, Toddler, Preschool>>

AgeGroupOf(s) ==
    LET i == CHOOSE x \in 1..Len(s) :
                 AgeTokenAt(s, x) /\ \A y \in 1..(x - 1) : ~AgeTokenAt(s, y)
    IN  AgeGroupNames[CHOOSE t \in 1..3 : TokenAt(s, i, AGE_TOKENS[t])]

BaseValue(i, b) == Rows[i][CHOOSE k \in 1..Len(Header) : SameIgnoringCase(Header[k], b)]

Positions == (1..Len(Rows)) \X (1..Len(Header))

\* the six fields of a canonical record
Canonical(r) ==
    [state_name |-> r.state_name,
     state_abbreviation |-> r.state_abbreviation,
     county_name |-> r.county_name,
     year |-> r.year,
     age_group |-> r.age_group,
     weekly_cost |-> r.weekly_cost]

CanonicalOf(i, k, year) ==
    [state_name |-> BaseValue(i, state_name),
     state_abbreviation |-> BaseValue(i, state_abbreviation),
     county_name |-> BaseValue(i, county_name),
     year |-> year,
     age_group |-> AgeGroupOf(Header[k]),
     weekly_cost |-> Rows[i][k]]

Returned == pc \in {"loaded", "filters", "stopped"}

Emitted(c) == Cardinality({n \in 1..Len(df_clean.rows) : Canonical(df_clean.rows[n]) = c})

Widgets == {"filters", "kpi", "line_chart", "choropleth"}

ShownSet == {shown[n] : n \in 1..Len(shown)}

\* a candidate record that passes validation: its column carries the marker,
\* a year token and an age-group token, and its cell is a number
ValidCandidate(p) ==
    /\ IsCostColumn(Header[p[2]])
    /\ HasYearToken(Header[p[2]])
    /\ HasAgeToken(Header[p[2]])
    /\ Rows[p[1]][p[2]].k = "num"

\* the row and column positions for which a present cell sits under a cost
\* column that carries a year token and an age-group token
Emitting == {p \in Positions :
                /\ IsCostColumn(Header[p[2]])
                /\ HasYearToken(Header[p[2]])
                /\ HasAgeToken(Header[p[2]])
                /\ Rows[p[1]][p[2]] # NaN}

ExpectedOf(p) == CanonicalOf(p[1], p[2], YearToken(Header[p[2]]))

\* the same table with its column names in another letter case
CaseStyles == {"lower", "upper", "capitalize", "alternate"}

ReCase(t, style) ==
    [cols |-> [k \in 1..Len(t.cols) |->
                  IF style = "upper" THEN str_upper(t.cols[k])
                  ELSE IF style = "capitalize" THEN str_capitalize(t.cols[k])
                  ELSE IF style = "alternate" /\ k % 2 = 1 THEN str_upper(t.cols[k])
                  ELSE str_lower(t.cols[k])],
     rows |-> t.rows]

Outcome ==
    IF pc = "raised" THEN ResultKeyError(exception.keys) ELSE df_clean

(* ---------------------------- claims ----------------------------------- *)

\* C1: a table that lacks a required base column (matched ignoring case)
\* ends in a KeyError that names exactly the missing columns; load_data
\* returns nothing and nothing is memoized.
C1_MissingColumnsError ==
    (file.status = "ok" /\ pc # "start" /\ MissingBase # {}) =>
        /\ pc = "raised"
        /\ exception.type = "KeyError"
        /\ {exception.keys[n] : n \in 1..Len(exception.keys)} = MissingBase
        /\ df_clean = Unset
        /\ cache = NoCache

C1_Witness ==
    /\ pc = "raised"
    /\ exception.type = "KeyError"
    /\ Cardinality(MissingBase) = 2
    /\ \E k \in 1..Len(Header) : IsCostColumn(Header[k])

\* C2: a present cost under a cost column without a year token but with an
\* age-group token yields one record whose year is the row's study-year value.
C2_StudyYearFallback ==
    (file.status = "ok" /\ Returned /\ MissingBase = {} /\ HasColumn(studyyear)) =>
        \A p \in Positions :
            ( /\ IsCostColumn(Header[p[2]])
              /\ ~HasYearToken(Header[p[2]])
              /\ HasAgeToken(Header[p[2]])
              /\ Rows[p[1]][p[2]] # NaN ) =>
                Emitted(CanonicalOf(p[1], p[2], BaseValue(p[1], studyyear).n)) = 1

\* C3: when no cost column is discovered or no candidate record is valid
\* (year token, age-group token and a numeric cost), the load is the empty
\* result and the script stops; no record carries a non-numeric cost.
C3_EmptyResult ==
    (file.status = "ok" /\ Returned /\ MissingBase = {}) =>
        /\ (~ \E p \in Positions : ValidCandidate(p)) =>
               /\ df_clean.kind = "frame"
               /\ df_clean.rows = <<>>
               /\ pc # "filters"
        /\ \A n \in 1..Len(df_clean.rows) : df_clean.rows[n].weekly_cost.k = "num"

\* C5: every returned record has a year, a weekly_cost and an age_group among
\* Infant, Toddler, Preschool, and comes from a column that carries a year
\* token and an age-group token.
C5_NoNullFields ==
    (Returned /\ df_clean.kind = "frame") =>
        \A n \in 1..Len(df_clean.rows) :
            LET r == df_clean.rows[n]
            IN  /\ r.year_str # NoMatch
                /\ r.year \in 0..9999
                /\ r.weekly_cost # NaN
                /\ r.age_group \in {Infant, Toddler, Preschool}
                /\ \E k \in 1..Len(Header) :
                       /\ SameIgnoringCase(Header[k], r.metric)
                       /\ HasAgeToken(Header[k])
                       /\ HasYearToken(Header[k])

C5_Witness ==
    /\ Returned
    /\ df_clean.kind = "frame"
    /\ df_clean.rows # <<>>
    /\ \E p \in Positions :
           /\ IsCostColumn(Header[p[2]])
           /\ HasYearToken(Header[p[2]])
           /\ ~HasAgeToken(Header[p[2]])
           /\ Rows[p[1]][p[2]].k = "num"

\* C8: with all base columns present the returned records are exactly, counted
\* with multiplicity, one record per row and cost column that carries a year
\* token and an age-group token and whose cell is present: the row's base
\* values, the year token as an integer, the capitalized age group, the cell.
C8_ExactlyTheRecords ==
    (file.status = "ok" /\ Returned /\ MissingBase = {}) =>
        /\ df_clean.kind = "frame"
        /\ LET emitting == Emitting
               expected == [p \in emitting |-> ExpectedOf(p)]
               returned == [n \in 1..Len(df_clean.rows) |-> Canonical(df_clean.rows[n])]
           IN  /\ Len(returned) = Cardinality(emitting)
               /\ \A p \in emitting :
                      Cardinality({n \in 1..Len(returned) : returned[n] = expected[p]})
                      = Cardinality({q \in emitting : expected[q] = expected[p]})

C8_Witness ==
    /\ file.status = "ok"
    /\ Returned
    /\ MissingBase = {}
    /\ Len(Rows) = 2
    /\ Cardinality(Emitting) = 3
    /\ Cardinality({p[2] : p \in Emitting}) = 2
    /\ Len(df_clean.rows) = 3

\* C9: a table whose column names differ only in letter case yields the same
\* outcome: the same records or the same error.
C9_CaseTolerance ==
    (file.status = "ok" /\ pc # "start") =>
        \A style \in CaseStyles :
            load_data_body(ReadableFile(ReCase(file.table, style))) = Outcome

C9_Witness ==
    /\ Returned
    /\ df_clean.kind = "frame"
    /\ Len(df_clean.rows) >= 2
    /\ \E k \in 1..Len(Header) : Header[k] = str_upper(state_name)

\* C10: a record from a column whose name carries a four-digit year token has
\* that token as its year, whatever the row's study-year column holds.
C10_YearTokenWins ==
    (file.status = "ok" /\ Returned /\ df_clean.kind = "frame") =>
        \A n \in 1..Len(df_clean.rows) :
            \A k \in 1..Len(Header) :
                ( /\ SameIgnoringCase(Header[k], df_clean.rows[n].metric)
                  /\ HasYearToken(Header[k]) ) =>
                    df_clean.rows[n].year = YearToken(Header[k])

C10_Witness ==
    /\ file.status = "ok"
    /\ Returned
    /\ HasColumn(studyyear)
    /\ \E n \in 1..Len(df_clean.rows) :
           /\ df_clean.rows[n].year = 2014
           /\ BaseValue(1, studyyear) = Num(2015)

\* C4: after a failed load (unreadable file, missing columns, empty result)
\* the run shows an error and halts; a filter, KPI card, line chart or map is
\* shown only after a load that returned a non-empty table.
C4_HaltOnFailure ==
    /\ (ShownSet \cap Widgets # {}) => (df_clean.kind = "frame" /\ df_clean.rows # <<>>)
    /\ (pc # "loaded" /\ (df_clean.kind = "None" \/ (df_clean.kind = "frame" /\ df_clean.rows = <<>>))) =>
           /\ pc = "stopped"
           /\ "error: could not be loaded or is empty" \in ShownSet
    /\ df_clean.kind = "None" => ("error: " \o df_clean.error) \in ShownSet
    /\ exception.type = "KeyError" =>
           /\ pc = "raised"
           /\ "exception" \in ShownSet
           /\ ShownSet \cap Widgets = {}

C4_Witness ==
    /\ pc = "stopped"
    /\ df_clean.kind = "frame"
    /\ df_clean.rows = <<>>
    /\ runs = 2

\* C6 as stated: an unchanged input is read and normalized at most once.
C6_ReadAtMostOnce == reads <= 1

\* C6 amended: an invocation that finds a memoized result returns it without
\* reading the source, and an unchanged input is read a second time only when
\* it lacks a required column, the load that raised having memoized nothing.
C6_MemoizedUnlessRaised ==
    [][ /\ (LoadData /\ cache # NoCache) =>
               /\ df_clean' = cache[cache_key(FILE_PATH, file)]
               /\ reads' = reads
               /\ cache' = cache
        /\ reads' > 1 => (file'.status = "ok" /\ MissingBase' # {} /\ cache' = NoCache)
      ]_vars

C6_Witness ==
    /\ calls >= 2
    /\ reads = 1
    /\ pc = "loaded"
    /\ df_clean.kind = "frame"
    /\ df_clean = load_data_body(file)

\* C7: an invocation made after the source changed returns the result of
\* reading and normalizing the current source.
C7_ReloadAfterChange ==
    [][ (LoadData /\ pc' = "loaded") => df_clean' = load_data_body(file) ]_vars

====
